---- MODULE Spec2Model ----
(***************************************************************************)
(* The Karta language front-end of src/src/bin/utils/blob.rs: the          *)
(* tokenizer, the recursive-descent parser over the AST heap and the atom  *)
(* table, and the chained query API (KartaFile / KartaQuery).              *)
(*                                                                         *)
(* Text is a sequence of one-character strings.  An i64 is kept as its     *)
(* decimal numeral (a sequence of digit characters without leading zeros), *)
(* so that the 64-bit range of parse::<i64> is the real one.               *)
(***************************************************************************)
EXTENDS Integers, Sequences, FiniteSets, TLC

(***************************************************************************)
(* Bounds of the model.                                                    *)
(***************************************************************************)
\* most pairs of a generated map literal / elements of a generated list literal
MaxElems == 2
\* greatest length of the exhaustively enumerated raw source texts
MaxRawLen == 3

(***************************************************************************)
(* Characters.                                                             *)
(***************************************************************************)
Digits == {"0", "1", "2", "3", "4", "5", "6", "7", "8", "9"}

Letters == {"a", "b", "c", "d", "e", "h", "i", "l", "m", "n", "s", "t", "x", "z"}

\* char::is_whitespace, on the characters the inputs use
is_whitespace(c) == c \in {" ", "\n", "\t"}

\* char::is_digit(10)
is_digit(c) == c \in Digits

\* char::is_alphanumeric, on the characters the inputs use
is_alphanumeric(c) == c \in Letters \cup Digits

\* the value of a decimal digit character
DigitVal(c) ==
    CASE c = "0" -> 0 [] c = "1" -> 1 [] c = "2" -> 2 [] c = "3" -> 3
      [] c = "4" -> 4 [] c = "5" -> 5 [] c = "6" -> 6 [] c = "7" -> 7
      [] c = "8" -> 8 [] c = "9" -> 9

\* the byte of a character (u8), for the characters a Char literal holds in the inputs
Byte(c) ==
    CASE c = "a" -> 97 [] c = "b" -> 98 [] c = "'" -> 39 [] c = "1" -> 49
      [] c = " " -> 32 [] c = "\"" -> 34 [] c = "." -> 46 [] c = "{" -> 123
      [] c = "}" -> 125 [] c = "[" -> 91 [] c = "]" -> 93 [] c = "," -> 44
      [] c = "=" -> 61 [] c = ";" -> 59 [] c = "\n" -> 10
      [] OTHER -> 63

\* the concatenation of a sequence of sequences
RECURSIVE Cat(_)
Cat(ss) == IF ss = <<>> THEN <<>> ELSE Head(ss) \o Cat(Tail(ss))

(***************************************************************************)
(* i64 as decimal numerals.                                                *)
(***************************************************************************)
\* i64::MAX = 9223372036854775807
I64Max == <<"9", "2", "2", "3", "3", "7", "2", "0", "3", "6",
            "8", "5", "4", "7", "7", "5", "8", "0", "7">>

\* a <= b for numerals without leading zeros
RECURSIVE LexLeq(_, _)
LexLeq(a, b) ==
    IF a = <<>> THEN TRUE
    ELSE IF DigitVal(Head(a)) < DigitVal(Head(b)) THEN TRUE
    ELSE IF DigitVal(Head(a)) > DigitVal(Head(b)) THEN FALSE
    ELSE LexLeq(Tail(a), Tail(b))

NumLeq(a, b) ==
    IF Len(a) # Len(b) THEN Len(a) < Len(b) ELSE LexLeq(a, b)

\* the numeral of a natural number below 2^31
RECURSIVE Numeral(_)
Numeral(n) ==
    LET d == CHOOSE c \in Digits : DigitVal(c) = n % 10
    IN  IF n < 10 THEN <<d>> ELSE Append(Numeral(n \div 10), d)

\* a numeral without its redundant leading zeros
RECURSIVE StripLeadingZeros(_)
StripLeadingZeros(ds) ==
    IF Len(ds) > 1 /\ Head(ds) = "0" THEN StripLeadingZeros(Tail(ds)) ELSE ds

\* str::parse::<i64> on a run of decimal digits: result = result * 10 + digit with
\* checked arithmetic, which fails with Err(PosOverflow) exactly when the number
\* the digits denote is past i64::MAX, and otherwise yields that number
parse_i64(data) ==
    IF data = <<>> \/ \E i \in 1..Len(data) : ~is_digit(data[i])
    THEN [ok |-> FALSE, val |-> <<>>]
    ELSE IF NumLeq(StripLeadingZeros(data), I64Max)
         THEN [ok |-> TRUE, val |-> StripLeadingZeros(data)]
         ELSE [ok |-> FALSE, val |-> <<>>]

(***************************************************************************)
(* f64, for the short literals of the inputs (at most 15 significant       *)
(* digits, where decimal -> f64 is one-to-one): the integer part as a      *)
(* numeral and the fraction digits without trailing zeros.                 *)
(***************************************************************************)
RECURSIVE StripTrailingZeros(_)
StripTrailingZeros(ds) ==
    IF ds # <<>> /\ ds[Len(ds)] = "0"
    THEN StripTrailingZeros(SubSeq(ds, 1, Len(ds) - 1))
    ELSE ds

\* str::parse::<f64> on digits '.' digits (the only shape the tokenizer's Float state emits)
parse_f64(data) ==
    LET dot == CHOOSE i \in 1..Len(data) : data[i] = "."
    IN  [ip |-> StripLeadingZeros(SubSeq(data, 1, dot - 1)),
         fp |-> StripTrailingZeros(SubSeq(data, dot + 1, Len(data)))]

(***************************************************************************)
(* State.                                                                  *)
(***************************************************************************)
VARIABLES
    expr,            \* the expression file_contents was written from (k = "raw": none)
    file_contents,   \* Tokenizer.file_contents: the text given to KartaFile::new
    tokenizer,       \* Tokenizer: cursor, starting_cursor, line, col, state
    tokens,          \* Parser.tokens
    cursor,          \* Parser.cursor
    stack,           \* the active parse_expression calls that wait for a sub-expression
    ret,             \* the AstId the last finished parse_expression call returned
    atoms,           \* KartaFile.atoms: text -> AtomId
    asts,            \* AstHeap.asts; AstId i is asts[i + 1]
    cells,           \* the AstIds make_list_node has returned
    result,          \* what KartaFile::new returned: status, root, err
    current_result,  \* KartaQuery.current_result
    out,             \* the most recent call on the document or a query, and its result
    pc               \* where control is: tokenize, expr, ret, query, failed, panicked

vars == <<expr, file_contents, tokenizer, tokens, cursor, stack, ret, atoms, asts, cells,
          result, current_result, out, pc>>

(***************************************************************************)
(* Tokenizer (blob.rs 370-597).                                            *)
(***************************************************************************)
\* from_string that classifies a text by its first character alone
from_string_by_first_char(str) ==
    CASE str[1] = "{" -> "LeftBrace"
      [] str[1] = "}" -> "RightBrace"
      [] str[1] = "[" -> "LeftSquare"
      [] str[1] = "]" -> "RightSquare"
      [] str[1] = "," -> "Comma"
      [] str[1] = "=" -> "Assign"
      [] OTHER -> IF str[1] = "." THEN "Atom"
                  ELSE IF is_digit(str[1]) THEN "Integer"
                  ELSE "Identifier"

\* TokenKind::from_string
from_string(str) ==
    CASE str = <<"{">> -> "LeftBrace"
      [] str = <<"}">> -> "RightBrace"
      [] str = <<"[">> -> "LeftSquare"
      [] str = <<"]">> -> "RightSquare"
      [] str = <<",">> -> "Comma"
      [] str = <<"=">> -> "Assign"
      [] OTHER -> IF str[1] = "." THEN "Atom"
                  ELSE IF is_digit(str[1]) THEN "Integer"
                  ELSE "Identifier"

\* &file_contents[from..to]
Slice(text, from, to) == SubSeq(text, from + 1, to)

\* Tokenizer::new
TokenizerNew ==
    [cursor |-> 0, starting_cursor |-> 0, line |-> 1, col |-> 1, state |-> "None"]

\* Tokenizer::eof
eof(t, text) == t.cursor >= Len(text)

\* advance that changes the state and leaves the cursor where it is
advance_in_place(t, new_state) == [t EXCEPT !.state = new_state]

\* Tokenizer::advance
advance(t, new_state) ==
    [t EXCEPT !.cursor = @ + 1, !.col = @ + 1, !.state = new_state]

\* Tokenizer::add_token: the tokenizer and the token list afterwards
add_token(t, text, kind, toks) ==
    [t    |-> [t EXCEPT !.starting_cursor = t.cursor, !.state = "None"],
     toks |-> Append(toks, [data |-> Slice(text, t.starting_cursor, t.cursor),
                            kind |-> kind,
                            span |-> [line |-> t.line, col |-> t.col - 1]]),
     err  |-> <<>>]

\* the end of a comment that leaves the line counter alone
comment_end_uncounted(t) ==
    [t EXCEPT !.col = 1, !.starting_cursor = t.cursor, !.state = "None"]

\* line 538-543: the newline that ends a comment is counted and left unconsumed
comment_end(t) ==
    [t EXCEPT !.line = @ + 1, !.col = 1, !.starting_cursor = t.cursor, !.state = "None"]

\* one iteration of the loop of Tokenizer::tokenize, the match arms in source order;
\* err is the message of an early `return Err(..)`, <<>> when there is none
tokenize_iter(t, text, toks) ==
    LET char    == text[t.cursor + 1]
        keep(u) == [t |-> u, toks |-> toks, err |-> <<>>]
        fail(m) == [t |-> t, toks |-> toks, err |-> m]
        newline == [t EXCEPT !.line = @ + 1, !.col = 1]
        atom_end == eof(t, text)
                      \/ (~is_alphanumeric(char) /\ char # "_" /\ char # "-" /\ char # "?")
        other   == keep(advance(t, t.state))
    IN  CASE t.state = "None" ->
                IF is_whitespace(char) THEN keep(advance(t, "Whitespace"))
                ELSE IF is_digit(char) THEN keep(advance(t, "Integer"))
                ELSE IF char = "." THEN keep(advance(t, "Atom"))
                ELSE IF char = "'" THEN keep(advance(t, "Char"))
                ELSE IF char = "\"" THEN keep(advance(t, "String"))
                ELSE IF char = ";" THEN keep(advance(t, "Comment"))
                ELSE keep(advance(t, "Symbol"))
          [] t.state = "Whitespace" ->
                IF eof(t, text) \/ ~is_whitespace(char)
                THEN keep([t EXCEPT !.starting_cursor = t.cursor, !.state = "None"])
                ELSE keep(advance(IF char = "\n" THEN newline ELSE t, "Whitespace"))
          [] t.state = "Integer" ->
                IF char = "." THEN keep(advance(t, "Float"))
                ELSE IF eof(t, text) \/ ~is_digit(char)
                THEN add_token(t, text, "Integer", toks)
                ELSE other
          [] t.state = "Atom" ->
                IF atom_end THEN add_token(t, text, "Atom", toks) ELSE other
          [] t.state = "Char" ->
                IF eof(t, text) THEN fail(<<"error: char goes to end of file">>)
                ELSE IF char = "'" THEN add_token(advance(t, "None"), text, "Char", toks)
                ELSE other
          [] t.state = "String" ->
                IF eof(t, text) THEN fail(<<"error: string goes to end of file">>)
                ELSE IF char = "\"" THEN add_token(advance(t, "None"), text, "String", toks)
                ELSE other
          [] t.state = "Symbol" ->
                IF eof(t, text)
                     \/ from_string(Slice(text, t.starting_cursor, t.cursor + 1)) = "Identifier"
                THEN add_token(t, text,
                               from_string(Slice(text, t.starting_cursor, t.cursor)), toks)
                ELSE other
          [] t.state = "Float" ->
                IF eof(t, text) \/ ~is_digit(char)
                THEN add_token(t, text, "Float", toks)
                ELSE other
          [] t.state = "Comment" ->
                IF char = "\n"
                THEN keep(comment_end(t))
                ELSE other

(***************************************************************************)
(* Atom table and AST heap (blob.rs 226-368).                              *)
(***************************************************************************)
\* an insert that keeps the entry a key already has
MapInsert_first_wins(m, k, v) ==
    [x \in DOMAIN m \cup {k} |-> IF x \in DOMAIN m THEN m[x] ELSE v]

\* HashMap::insert: last write wins
MapInsert(m, k, v) == [x \in DOMAIN m \cup {k} |-> IF x = k THEN v ELSE m[x]]

\* HashMap::new
EmptyMap == [x \in {} |-> 0]

\* put_atoms_in_set that gives every interned text a fresh id, present or not
put_atoms_in_set_renumber(tbl, atom) ==
    [atoms |-> MapInsert(tbl, atom, Cardinality(DOMAIN tbl)),
     id    |-> Cardinality(DOMAIN tbl)]

\* put_atoms_in_set that numbers a new atom after inserting it
put_atoms_in_set_len_after(tbl, atom) ==
    IF atom \in DOMAIN tbl
    THEN [atoms |-> tbl, id |-> tbl[atom]]
    ELSE [atoms |-> MapInsert(tbl, atom, Cardinality(DOMAIN tbl) + 1),
          id    |-> Cardinality(DOMAIN tbl) + 1]

\* put_atoms_in_set: the table afterwards and the id returned
put_atoms_in_set(tbl, atom) ==
    IF atom \in DOMAIN tbl
    THEN [atoms |-> tbl, id |-> tbl[atom]]
    ELSE [atoms |-> MapInsert(tbl, atom, Cardinality(DOMAIN tbl)),
          id    |-> Cardinality(DOMAIN tbl)]

\* enum Ast
AstInt(x) == [kind |-> "Int", val |-> x]
AstFloat(x) == [kind |-> "Float", val |-> x]
AstChar(x) == [kind |-> "Char", val |-> x]
AstString(x) == [kind |-> "String", val |-> x]
AstAtom(x) == [kind |-> "Atom", val |-> x]
AstMap(x) == [kind |-> "Map", val |-> x]

\* insert that returns the length after the push as the handle
insert_len_after(heap, ast) == [asts |-> Append(heap, ast), id |-> Len(heap) + 1]

\* AstHeap::insert: the heap afterwards and the id returned
insert(heap, ast) == [asts |-> Append(heap, ast), id |-> Len(heap)]

\* AstHeap::nil_atom
nil_atom == 0

\* make_list_node that stores the tail under the head's key
make_list_node_one_key(heap, head_atom, head, tail_atom) ==
    insert(heap, AstMap(MapInsert(MapInsert(EmptyMap, head_atom, head), head_atom, nil_atom)))

\* AstHeap::make_list_node
make_list_node(heap, head_atom, head, tail_atom) ==
    insert(heap, AstMap(MapInsert(MapInsert(EmptyMap, head_atom, head), tail_atom, nil_atom)))

\* AstHeap::get / get_mut: Some exactly when the id is in range
has(heap, ast_id) == ast_id < Len(heap)

get(heap, ast_id) == heap[ast_id + 1]

\* the names KartaFile::new interns before parsing
NIL == <<".", "n", "i", "l">>
T == <<".", "t">>
HEAD == <<".", "h", "e", "a", "d">>
TAIL == <<".", "t", "a", "i", "l">>

\* KartaFile::new, lines 46-50: the atom table handed to the parser
InitialAtoms ==
    LET a1 == put_atoms_in_set(EmptyMap, NIL).atoms
        a2 == put_atoms_in_set(a1, T).atoms
        a3 == put_atoms_in_set(a2, HEAD).atoms
    IN  put_atoms_in_set(a3, TAIL).atoms

\* KartaFile::new, lines 47, 52-53: the heap handed to the parser
InitialHeap == insert(<<>>, AstAtom(put_atoms_in_set(EmptyMap, NIL).id)).asts

\* #[derive(Debug)] of Ast, AtomId, AstId; a map's entries are written in key order
\* (HashMap's iteration order is unspecified but fixed while the map is not changed)
RECURSIVE DebugEntries(_, _)
DebugEntries(m, keys) ==
    IF keys = {} THEN <<>>
    ELSE LET k == CHOOSE x \in keys : \A y \in keys : x <= y
             e == <<"AtomId(">> \o Numeral(k) \o <<"): AstId(">> \o Numeral(m[k]) \o <<")">>
         IN  IF keys = {k} THEN e ELSE e \o <<", ">> \o DebugEntries(m, keys \ {k})

Debug(ast) ==
    CASE ast.kind = "Int" -> <<"Int(">> \o ast.val \o <<")">>
      [] ast.kind = "Float" ->
            <<"Float(">> \o ast.val.ip \o <<".">>
                \o (IF ast.val.fp = <<>> THEN <<"0">> ELSE ast.val.fp) \o <<")">>
      [] ast.kind = "Char" -> <<"Char(">> \o Numeral(ast.val) \o <<")">>
      [] ast.kind = "String" -> <<"String(\"">> \o ast.val \o <<"\")">>
      [] ast.kind = "Atom" -> <<"Atom(AtomId(">> \o Numeral(ast.val) \o <<"))">>
      [] ast.kind = "Map" -> <<"Map({">> \o DebugEntries(ast.val, DOMAIN ast.val) \o <<"})">>

(***************************************************************************)
(* Parser helpers (blob.rs 627-668).                                       *)
(***************************************************************************)
\* Parser::eos
eos == cursor >= Len(tokens)

\* Parser::peek; indexing past the tokens aborts
peek == tokens[cursor + 1]

\* parse_error that reports the span of the last consumed token
parse_error_at_consumed(expected, got) ==
    LET last == tokens[IF cursor = 0 THEN 1 ELSE cursor]
    IN  <<"error: ">> \o Numeral(last.span.line) \o <<":">> \o Numeral(last.span.col)
            \o <<": expected ", expected, ", got ", got>>

\* Parser::parse_error
parse_error(expected, got) ==
    <<"error: ">> \o Numeral(peek.span.line) \o <<":">> \o Numeral(peek.span.col)
        \o <<": expected ", expected, ", got ", got>>

\* Parser::accept(kind) is Some, with the parser's cursor at c
accept_at(c, kind) == ~(c >= Len(tokens)) /\ tokens[c + 1].kind = kind

\* Parser::accept(kind) is Some
accept(kind) == ~eos /\ peek.kind = kind

\* the Err of Parser::expect(kind)
expect_err(kind) == parse_error(kind, peek.kind)

\* a frame of parse_expression that waits for a sub-expression: the `{` arm (fn "map":
\* children and, at stage "value", key) or the `[` arm (fn "list": head_atom,
\* tail_atom and, at stage "rest", retval and curr_id)
Frame(fn, stage) ==
    [fn |-> fn, stage |-> stage, children |-> EmptyMap, key |-> 0,
     head_atom |-> 0, tail_atom |-> 0, retval |-> 0, curr_id |-> 0]

Push(frame) == Append(stack, frame)

Top == stack[Len(stack)]

Pop == SubSeq(stack, 1, Len(stack) - 1)

SetTop(frame) == [stack EXCEPT ![Len(stack)] = frame]

\* Result values of KartaFile::new
Pending == [status |-> "pending", root |-> 0, err |-> <<>>]

\* the cursors of a KartaQuery
Ok(id) == [ok |-> TRUE, id |-> id, err |-> <<>>]

Err(msg) == [ok |-> FALSE, id |-> 0, err |-> msg]

NoQuery == Err(<<"no query">>)

\* out: the call (op, the cursor `self` it was made on, the field given to get_atom)
\* and what it returned (ok with val, or err; for get_atom the new cursor)
NoCall ==
    [op |-> "none", self |-> NoQuery, field |-> <<>>, ok |-> FALSE, val |-> <<>>,
     err |-> <<>>]

(***************************************************************************)
(* Inputs: the texts given to KartaFile::new.  A text is either written    *)
(* from an expression of the grammar (kept in expr, so that what the       *)
(* parser builds can be compared with what was written) or a raw text.     *)
(***************************************************************************)
A == <<".", "a">>
B == <<".", "b">>
C == <<".", "c">>
X == <<".", "x">>
NESTED == <<".", "n", "e", "s", "t", "e", "d">>
SOME_STRING == <<".", "s", "-", "s">>
\* a name no input interns
ZZ == <<".", "z", "z">>

\* written expressions: a literal (lex is its text), a map literal (kids are its
\* pairs in source order) or a list literal (kids are its elements, key unused)
Leaf(lex) == [k |-> "leaf", lex |-> lex, kids |-> <<>>]

MapT(pairs) ==
    [k |-> "map", lex |-> <<>>,
     kids |-> [i \in 1..Len(pairs) |-> [key |-> pairs[i][1], sub |-> pairs[i][2]]]]

ListT(elems) ==
    [k |-> "list", lex |-> <<>>,
     kids |-> [i \in 1..Len(elems) |-> [key |-> <<>>, sub |-> elems[i]]]]

NoExpr == [k |-> "raw", lex |-> <<>>, kids |-> <<>>]

\* the text of an expression, with (spaced) or without blanks between the tokens
RECURSIVE Render(_, _)
Render(e, spaced) ==
    LET sp == IF spaced THEN <<" ">> ELSE <<>>
        pair(i) == e.kids[i].key \o sp \o <<"=">> \o sp \o Render(e.kids[i].sub, spaced)
        item(i) == IF e.k = "map" THEN pair(i) ELSE Render(e.kids[i].sub, spaced)
        items == Cat([i \in 1..Len(e.kids) |->
                        (IF i > 1 THEN <<",">> \o sp ELSE <<>>) \o item(i)])
    IN  CASE e.k = "leaf" -> e.lex
          [] e.k = "map" -> <<"{">> \o sp \o items \o sp \o <<"}">>
          [] e.k = "list" -> <<"[">> \o items \o <<"]">>

\* KartaFile::from_file, line 71: the text read, with a newline pushed
from_file(text) == Append(text, "\n")

GenLeaves ==
    {Leaf(l) : l \in {<<"1">>, <<"2", ".", "5">>, <<"'", "a", "'">>,
                      <<"\"", "h", "i", "\"">>, NIL}}

MapsOver(keys, S) ==
    {MapT(kv) : kv \in UNION {[1..m -> keys \X S] : m \in 1..MaxElems}}

ListsOver(S) ==
    {ListT(es) : es \in UNION {[1..m -> S] : m \in 0..MaxElems}}

\* depth at most 1, every combination
Level1 == GenLeaves \cup MapsOver({A, B}, GenLeaves) \cup ListsOver(GenLeaves)

\* depth 2, over a few inner expressions
Inner ==
    {Leaf(<<"4", "2">>), MapT(<<<<X, Leaf(<<"4", "2">>)>>>>), ListT(<<>>),
     ListT(<<Leaf(<<"1">>), Leaf(T)>>)}

Level2 == MapsOver({A, NESTED}, Inner) \cup ListsOver(Inner)

\* the examples of the documentation and of src/bin/test_app.rs, and the edges of i64
Examples ==
    {MapT(<<<<A, Leaf(<<"1">>)>>, <<B, Leaf(<<"2", ".", "5">>)>>,
            <<C, Leaf(<<"\"", "h", "i", "\"">>)>>>>),
     MapT(<<<<NESTED, MapT(<<<<X, Leaf(<<"4", "2">>)>>>>)>>>>),
     ListT(<<Leaf(<<"1">>), Leaf(<<"2">>), Leaf(<<"3">>)>>),
     ListT(<<ListT(<<Leaf(<<"1">>)>>), ListT(<<ListT(<<>>)>>)>>),
     MapT(<<<<SOME_STRING, Leaf(<<"\"", "h", "i", "\"">>)>>,
            <<HEAD, Leaf(<<"7">>)>>, <<TAIL, Leaf(<<"8">>)>>>>),
     Leaf(<<"0">>), Leaf(<<"0", "0", "7">>), Leaf(I64Max),
     Leaf(<<"9", "2", "2", "3", "3", "7", "2", "0", "3", "6",
            "8", "5", "4", "7", "7", "5", "8", "0", "8">>),
     Leaf(<<"1", "0", "0", "0", "0", "0", "0", "0", "0", "0",
            "0", "0", "0", "0", "0", "0", "0", "0", "0", "0">>)}

RawAlphabet ==
    {"{", "}", "[", "]", ",", "=", ".", "a", "1", "'", "\"", ";", " ", "\n"}

RawTexts == UNION {[1..n -> RawAlphabet] : n \in 0..MaxRawLen}

\* { .a = 1 .b = 2 }: the comma is missing
MissingComma ==
    <<"{", " ">> \o A \o <<" ", "=", " ", "1", " ">> \o B \o <<" ", "=", " ", "2", " ", "}">>

\* { .a = 1,
\*   .b 2 }: the `=` of the second line is missing
MissingAssign ==
    <<"{", " ">> \o A \o <<" ", "=", " ", "1", ",", "\n", " ", " ">> \o B
        \o <<" ", "2", " ", "}">>

\* { .a = 1 } x
TrailingIdentifier ==
    <<"{", " ">> \o A \o <<" ", "=", " ", "1", " ", "}", " ", "x">>

\* {.a=1,.b=2}: punctuation next to punctuation and to literals, no blanks
AdjacentPunctuation == Render(MapT(<<<<A, Leaf(<<"1">>)>>, <<B, Leaf(<<"2">>)>>>>), FALSE)

\* {[]=1}: an empty list where the key is expected
EmptyListKey == <<"{", "[", "]", "=", "1", "}">>

\* a comment between two lines, after a blank line
Commented == <<"1", " ", "\n", "\n", " ", "2", " ", ";", "c", "\n", "3">>

\* longer texts, most of them not one well-formed expression, each also as from_file
\* reads it
Texts ==
    LET written == {MissingComma, MissingAssign, TrailingIdentifier, AdjacentPunctuation,
                    EmptyListKey, Commented,
                    <<"[", "1", " ", "2", "]">>,
                    <<"[", "1", ",", " ", "{", " ">> \o A \o <<" ", "=", " ", "]">>,
                    <<"{", "{">> \o A \o <<"=", "1", "}", "=", "1", "}">>}
    IN  written \cup {from_file(t) : t \in written}

Inputs ==
    {[expr |-> e, text |-> from_file(Render(e, FALSE))] : e \in Level1}
      \cup {[expr |-> e, text |-> from_file(Render(e, TRUE))] : e \in Level2 \cup Examples}
      \cup {[expr |-> NoExpr, text |-> t] : t \in RawTexts \cup Texts}

(***************************************************************************)
(* KartaFile::new up to the call of Parser::parse (blob.rs 45-56).         *)
(***************************************************************************)
Init ==
    /\ \E inp \in Inputs : expr = inp.expr /\ file_contents = inp.text
    /\ tokenizer = TokenizerNew
    /\ tokens = <<>>
    /\ cursor = 0
    /\ stack = <<>>
    /\ ret = 0
    /\ atoms = InitialAtoms
    /\ asts = InitialHeap
    /\ cells = {}
    /\ result = Pending
    /\ current_result = NoQuery
    /\ out = NoCall
    /\ pc = "tokenize"

\* KartaFile::new returns Err(msg): the `?` of line 56
Fails(msg) ==
    /\ pc' = "failed"
    /\ result' = [status |-> "err", root |-> 0, err |-> msg]

\* the thread panics (an unwrap, an index out of range)
Panics(msg) ==
    /\ pc' = "panicked"
    /\ result' = [status |-> "panic", root |-> 0, err |-> msg]

(***************************************************************************)
(* Tokenizer::tokenize, called by Parser::parse (blob.rs 456-553, 621-622) *)
(***************************************************************************)
\* one iteration of `while !self.eof()`; an Err is unwrapped by Parser::parse
TokenizeStep ==
    /\ pc = "tokenize"
    /\ ~eof(tokenizer, file_contents)
    /\ LET r == tokenize_iter(tokenizer, file_contents, tokens)
       IN  IF r.err = <<>>
           THEN /\ tokenizer' = r.t
                /\ tokens' = r.toks
                /\ UNCHANGED <<pc, result>>
           ELSE /\ Panics(<<"called Result::unwrap() on an Err value: ">> \o r.err)
                /\ UNCHANGED <<tokenizer, tokens>>
    /\ UNCHANGED <<expr, file_contents, cursor, stack, ret, atoms, asts, cells,
                   current_result, out>>

\* the EndOfFile token only when no text is pending at the end of the input
TokenizeEnd_unless_pending ==
    /\ pc = "tokenize"
    /\ eof(tokenizer, file_contents)
    /\ LET r == add_token(tokenizer, file_contents, "EndOfFile", tokens)
       IN  /\ tokenizer' = r.t
           /\ tokens' = IF tokenizer.starting_cursor = tokenizer.cursor THEN r.toks ELSE tokens
    /\ pc' = "expr"
    /\ UNCHANGED <<expr, file_contents, cursor, stack, ret, atoms, asts, cells, result,
                   current_result, out>>

\* the loop ends: the EndOfFile token, then parse_expression is entered
TokenizeEnd ==
    /\ pc = "tokenize"
    /\ eof(tokenizer, file_contents)
    /\ LET r == add_token(tokenizer, file_contents, "EndOfFile", tokens)
       IN  tokenizer' = r.t /\ tokens' = r.toks
    /\ pc' = "expr"
    /\ UNCHANGED <<expr, file_contents, cursor, stack, ret, atoms, asts, cells, result,
                   current_result, out>>

(***************************************************************************)
(* Parser::parse_expression (blob.rs 671-738).  pc = "expr": a call is     *)
(* entered; pc = "ret": a call has returned Ok(ret) to the frame on top of *)
(* the stack.                                                              *)
(***************************************************************************)
\* the call returns Ok(ins.id), having inserted a node
Returns(ins) ==
    /\ asts' = ins.asts
    /\ ret' = ins.id
    /\ pc' = "ret"

\* line 676-677
ParseInteger ==
    /\ pc = "expr"
    /\ accept("Integer")
    /\ LET r == parse_i64(peek.data)
       IN  IF r.ok
           THEN /\ Returns(insert(asts, AstInt(r.val)))
                /\ cursor' = cursor + 1
                /\ UNCHANGED result
           ELSE /\ Panics(<<"called Result::unwrap() on an Err value: ParseIntError">>)
                /\ cursor' = cursor + 1
                /\ UNCHANGED <<asts, ret>>
    /\ UNCHANGED <<expr, file_contents, tokenizer, tokens, stack, atoms, cells,
                   current_result, out>>

\* line 678-679
ParseFloat ==
    /\ pc = "expr"
    /\ accept("Float")
    /\ Returns(insert(asts, AstFloat(parse_f64(peek.data))))
    /\ cursor' = cursor + 1
    /\ UNCHANGED <<expr, file_contents, tokenizer, tokens, stack, atoms, cells, result,
                   current_result, out>>

\* line 680-681
ParseChar ==
    /\ pc = "expr"
    /\ accept("Char")
    /\ IF Len(peek.data) > 1
       THEN /\ Returns(insert(asts, AstChar(Byte(peek.data[2]))))
            /\ cursor' = cursor + 1
            /\ UNCHANGED result
       ELSE /\ Panics(<<"index out of bounds">>)
            /\ UNCHANGED <<asts, ret, cursor>>
    /\ UNCHANGED <<expr, file_contents, tokenizer, tokens, stack, atoms, cells,
                   current_result, out>>

\* line 682-684
ParseString ==
    /\ pc = "expr"
    /\ accept("String")
    /\ Returns(insert(asts, AstString(SubSeq(peek.data, 2, Len(peek.data) - 1))))
    /\ cursor' = cursor + 1
    /\ UNCHANGED <<expr, file_contents, tokenizer, tokens, stack, atoms, cells, result,
                   current_result, out>>

\* line 685-687
ParseAtom ==
    /\ pc = "expr"
    /\ accept("Atom")
    /\ LET a == put_atoms_in_set(atoms, peek.data)
       IN  /\ atoms' = a.atoms
           /\ Returns(insert(asts, AstAtom(a.id)))
    /\ cursor' = cursor + 1
    /\ UNCHANGED <<expr, file_contents, tokenizer, tokens, stack, cells, result,
                   current_result, out>>

\* line 688-691: `{` is accepted and the first key expression is parsed
ParseMapOpen ==
    /\ pc = "expr"
    /\ accept("LeftBrace")
    /\ cursor' = cursor + 1
    /\ stack' = Push(Frame("map", "key"))
    /\ UNCHANGED <<expr, file_contents, tokenizer, tokens, ret, atoms, asts, cells, result,
                   current_result, out, pc>>

\* line 708-715: `[` is accepted; `[]` returns nil_atom, otherwise the first element
\* is parsed
ParseListOpen ==
    /\ pc = "expr"
    /\ accept("LeftSquare")
    /\ LET h == put_atoms_in_set(atoms, HEAD)
           t == put_atoms_in_set(h.atoms, TAIL)
       IN  /\ atoms' = t.atoms
           /\ IF accept_at(cursor + 1, "RightSquare")
              THEN /\ cursor' = cursor + 2
                   /\ ret' = nil_atom
                   /\ pc' = "ret"
                   /\ UNCHANGED stack
              ELSE /\ cursor' = cursor + 1
                   /\ stack' = Push([Frame("list", "first") EXCEPT
                                        !.head_atom = h.id, !.tail_atom = t.id])
                   /\ UNCHANGED <<ret, pc>>
    /\ UNCHANGED <<expr, file_contents, tokenizer, tokens, asts, cells, result,
                   current_result, out>>

\* the failing arm that pops the offending token before it reports it
ParseUnexpected_pops ==
    /\ pc = "expr"
    /\ \A kind \in {"Integer", "Float", "Char", "String", "Atom", "LeftBrace",
                    "LeftSquare"} : ~accept(kind)
    /\ IF eos
       THEN Panics(<<"index out of bounds">>)
       ELSE Fails(parse_error("an expression", peek.kind))
    /\ cursor' = cursor + 1
    /\ UNCHANGED <<expr, file_contents, tokenizer, tokens, stack, ret, atoms, asts,
                   cells, current_result, out>>

\* line 732-737: no production starts with the next token
ParseUnexpected ==
    /\ pc = "expr"
    /\ \A kind \in {"Integer", "Float", "Char", "String", "Atom", "LeftBrace",
                    "LeftSquare"} : ~accept(kind)
    /\ IF eos
       THEN Panics(<<"index out of bounds">>)
       ELSE Fails(parse_error("an expression", peek.kind))
    /\ UNCHANGED <<expr, file_contents, tokenizer, tokens, cursor, stack, ret, atoms, asts,
                   cells, current_result, out>>

\* the key taken for the node of handle key_ast_id
map_key_is_handle(key_ast_id) == key_ast_id

\* line 692-693: `Ast::Atom(s) => s`, the key of the pair
map_key(key_ast_id) == get(asts, key_ast_id).val

\* the key step that expects the `=` before it looks at the node of the key
ParseMapKey_assign_first ==
    /\ pc = "ret"
    /\ stack # <<>>
    /\ Top.fn = "map"
    /\ Top.stage = "key"
    /\ IF ~accept("Assign")
       THEN /\ Fails(expect_err("Assign"))
            /\ UNCHANGED <<cursor, stack>>
       ELSE IF get(asts, ret).kind # "Atom"
       THEN /\ Fails(<<"bad!">>)
            /\ UNCHANGED <<cursor, stack>>
       ELSE /\ cursor' = cursor + 1
            /\ stack' = SetTop([Top EXCEPT !.key = map_key(ret), !.stage = "value"])
            /\ pc' = "expr"
            /\ UNCHANGED result
    /\ UNCHANGED <<expr, file_contents, tokenizer, tokens, ret, atoms, asts, cells,
                   current_result, out>>

\* line 692-697: the key expression has been parsed
ParseMapKey ==
    /\ pc = "ret"
    /\ stack # <<>>
    /\ Top.fn = "map"
    /\ Top.stage = "key"
    /\ IF ~has(asts, ret)
       THEN /\ Panics(<<"called Option::unwrap() on a None value">>)
            /\ UNCHANGED <<cursor, stack>>
       ELSE IF get(asts, ret).kind # "Atom"
       THEN /\ Fails(<<"bad!">>)
            /\ UNCHANGED <<cursor, stack>>
       ELSE IF eos
       THEN /\ Panics(<<"index out of bounds">>)
            /\ UNCHANGED <<cursor, stack>>
       ELSE IF accept("Assign")
       THEN /\ cursor' = cursor + 1
            /\ stack' = SetTop([Top EXCEPT !.key = map_key(ret), !.stage = "value"])
            /\ pc' = "expr"
            /\ UNCHANGED result
       ELSE /\ Fails(expect_err("Assign"))
            /\ UNCHANGED <<cursor, stack>>
    /\ UNCHANGED <<expr, file_contents, tokenizer, tokens, ret, atoms, asts, cells,
                   current_result, out>>

\* line 699-707: the value expression has been parsed
ParseMapValue ==
    /\ pc = "ret"
    /\ stack # <<>>
    /\ Top.fn = "map"
    /\ Top.stage = "value"
    /\ LET children == MapInsert(Top.children, Top.key, ret)
       IN  IF accept("Comma")
           THEN /\ cursor' = cursor + 1
                /\ stack' = SetTop([Top EXCEPT !.children = children, !.stage = "key"])
                /\ pc' = "expr"
                /\ UNCHANGED <<asts, ret, result>>
           ELSE IF eos
           THEN /\ Panics(<<"index out of bounds">>)
                /\ UNCHANGED <<asts, ret, cursor, stack>>
           ELSE IF accept("RightBrace")
           THEN /\ cursor' = cursor + 1
                /\ stack' = Pop
                /\ Returns(insert(asts, AstMap(children)))
                /\ UNCHANGED result
           ELSE /\ Fails(expect_err("RightBrace"))
                /\ UNCHANGED <<asts, ret, cursor, stack>>
    /\ UNCHANGED <<expr, file_contents, tokenizer, tokens, atoms, cells,
                   current_result, out>>

\* the last cell returned instead of the first
list_result_last(retval, curr_id) == curr_id

\* line 730: `Ok(retval)`, the handle of the first cell
list_result(retval, curr_id) == retval

\* line 718, 729-730: the loop of the `[` arm after a cell was made: the heap is
\* `heap`, the first cell retval and the last cell curr_id
ListLoop(heap, retval, curr_id) ==
    IF accept("Comma")
    THEN /\ cursor' = cursor + 1
         /\ stack' = SetTop([Top EXCEPT !.stage = "rest", !.retval = retval,
                                        !.curr_id = curr_id])
         /\ asts' = heap
         /\ pc' = "expr"
         /\ UNCHANGED <<ret, result>>
    ELSE IF eos
    THEN /\ Panics(<<"index out of bounds">>)
         /\ asts' = heap
         /\ UNCHANGED <<ret, cursor, stack>>
    ELSE IF accept("RightSquare")
    THEN /\ cursor' = cursor + 1
         /\ stack' = Pop
         /\ asts' = heap
         /\ ret' = list_result(retval, curr_id)
         /\ pc' = "ret"
         /\ UNCHANGED result
    ELSE /\ Fails(expect_err("RightSquare"))
         /\ asts' = heap
         /\ UNCHANGED <<ret, cursor, stack>>

\* line 715-717: the first element has been parsed
ParseListFirst ==
    /\ pc = "ret"
    /\ stack # <<>>
    /\ Top.fn = "list"
    /\ Top.stage = "first"
    /\ LET cell == make_list_node(asts, Top.head_atom, ret, Top.tail_atom)
       IN  /\ cells' = cells \cup {cell.id}
           /\ ListLoop(cell.asts, cell.id, cell.id)
    /\ UNCHANGED <<expr, file_contents, tokenizer, tokens, atoms, current_result, out>>

\* line 719-727: a further element has been parsed; the last cell's tail is linked
ParseListRest ==
    /\ pc = "ret"
    /\ stack # <<>>
    /\ Top.fn = "list"
    /\ Top.stage = "rest"
    /\ LET cell == make_list_node(asts, Top.head_atom, ret, Top.tail_atom)
           curr == get(cell.asts, Top.curr_id)
       IN  /\ cells' = cells \cup {cell.id}
           /\ IF ~has(cell.asts, Top.curr_id) \/ curr.kind # "Map"
              THEN /\ Panics(<<"unreachable">>)
                   /\ asts' = cell.asts
                   /\ UNCHANGED <<ret, cursor, stack>>
              ELSE ListLoop([cell.asts EXCEPT ![Top.curr_id + 1] =
                                AstMap(MapInsert(curr.val, Top.tail_atom, cell.id))],
                            Top.retval, cell.id)
    /\ UNCHANGED <<expr, file_contents, tokenizer, tokens, atoms, current_result, out>>

\* line 624, 56-62: the outermost call returns and KartaFile::new returns Ok
ParseDone ==
    /\ pc = "ret"
    /\ stack = <<>>
    /\ result' = [status |-> "ok", root |-> ret, err |-> <<>>]
    /\ pc' = "file"
    /\ UNCHANGED <<expr, file_contents, tokenizer, tokens, cursor, stack, ret, atoms, asts,
                   cells, current_result, out>>

(***************************************************************************)
(* KartaFile::query and KartaQuery (blob.rs 76-221).  The messages are     *)
(* written without the backquotes of the source.                           *)
(***************************************************************************)
\* the abort of `.expect("couldn't get Ast for AstId")`
Aborted == Err(<<"panic: couldn't get Ast for AstId">>)

\* KartaQuery::new
query_new == Ok(result.root)

\* get_atom without the early return on an errant cursor: the lookup starts over
\* from the root
get_atom_unsticky(cur, field) ==
    LET from == IF cur.ok THEN cur ELSE Ok(result.root)
        root_ast == get(asts, from.id)
    IN  IF field \notin DOMAIN atoms THEN from
        ELSE IF root_ast.kind = "Map"
        THEN Ok(IF atoms[field] \in DOMAIN root_ast.val
                THEN root_ast.val[atoms[field]]
                ELSE 0)
        ELSE Err(<<"cannot call get on ">> \o Debug(root_ast) \o <<" type AST">>)

\* get_atom that treats a name never interned like an absent key
get_atom_unknown_is_absent(cur, field) ==
    IF ~cur.ok THEN cur
    ELSE LET root_ast == get(asts, cur.id)
         IN  IF root_ast.kind = "Map"
             THEN Ok(IF field \in DOMAIN atoms /\ atoms[field] \in DOMAIN root_ast.val
                     THEN root_ast.val[atoms[field]]
                     ELSE 0)
             ELSE Err(<<"cannot call get on ">> \o Debug(root_ast) \o <<" type AST">>)

\* get_atom that stays on the map when the key is absent
get_atom_absent_stays(cur, field) ==
    IF ~cur.ok \/ field \notin DOMAIN atoms THEN cur
    ELSE LET root_ast == get(asts, cur.id)
         IN  IF root_ast.kind = "Map"
             THEN Ok(IF atoms[field] \in DOMAIN root_ast.val
                     THEN root_ast.val[atoms[field]]
                     ELSE cur.id)
             ELSE Err(<<"cannot call get on ">> \o Debug(root_ast) \o <<" type AST">>)

\* get_atom whose handle for an absent key is one past the heap
get_atom_absent_past_end(cur, field) ==
    IF ~cur.ok THEN cur
    ELSE IF ~has(asts, cur.id) THEN Aborted
    ELSE IF field \notin DOMAIN atoms THEN cur
    ELSE LET root_ast == get(asts, cur.id)
         IN  IF root_ast.kind = "Map"
             THEN Ok(IF atoms[field] \in DOMAIN root_ast.val
                     THEN root_ast.val[atoms[field]]
                     ELSE Len(asts))
             ELSE Err(<<"cannot call get on ">> \o Debug(root_ast) \o <<" type AST">>)

\* KartaQuery::get_atom: the cursor of the query returned
get_atom(cur, field) ==
    IF ~cur.ok THEN cur
    ELSE IF ~has(asts, cur.id) THEN Aborted
    ELSE IF field \notin DOMAIN atoms THEN cur
    ELSE LET root_ast == get(asts, cur.id)
             field_atom_id == atoms[field]
         IN  IF root_ast.kind = "Map"
             THEN Ok(IF field_atom_id \in DOMAIN root_ast.val
                     THEN root_ast.val[field_atom_id]
                     ELSE 0)
             ELSE Err(<<"cannot call get on ">> \o Debug(root_ast) \o <<" type AST">>)

\* what a terminal call returns
ROk(v) == [ok |-> TRUE, val |-> v, err |-> <<>>]

RErr(msg) == [ok |-> FALSE, val |-> <<>>, err |-> msg]

\* f64 as i64: truncation, saturating at i64::MAX
f64_as_i64(x) == IF NumLeq(x.ip, I64Max) THEN x.ip ELSE I64Max

\* i64 as f64: exact up to 15 digits; beyond, the nearest f64 (of the inputs only
\* i64::MAX is that long, and its nearest f64 is 2^63)
i64_as_f64(x) ==
    IF x = I64Max
    THEN [ip |-> <<"9", "2", "2", "3", "3", "7", "2", "0", "3", "6",
                   "8", "5", "4", "7", "7", "5", "8", "0", "8">>, fp |-> <<>>]
    ELSE [ip |-> x, fp |-> <<>>]

\* KartaQuery::as_int
as_int(cur) ==
    IF cur.ok
    THEN IF ~has(asts, cur.id) THEN RErr(Aborted.err)
         ELSE LET ast == get(asts, cur.id)
              IN  CASE ast.kind = "Int" -> ROk(ast.val)
                    [] ast.kind = "Float" -> ROk(f64_as_i64(ast.val))
                    [] ast.kind = "Char" -> ROk(Numeral(ast.val))
                    [] OTHER -> RErr(<<"cannot convert ">> \o Debug(ast) \o <<" to int">>)
    ELSE RErr(cur.err)

\* as_float that converts Int and Float only
as_float_no_char(cur) ==
    IF cur.ok
    THEN LET ast == get(asts, cur.id)
         IN  CASE ast.kind = "Int" -> ROk(i64_as_f64(ast.val))
               [] ast.kind = "Float" -> ROk(ast.val)
               [] OTHER -> RErr(<<"cannot convert ">> \o Debug(ast) \o <<" to float">>)
    ELSE RErr(cur.err)

\* KartaQuery::as_float
as_float(cur) ==
    IF cur.ok
    THEN IF ~has(asts, cur.id) THEN RErr(Aborted.err)
         ELSE LET ast == get(asts, cur.id)
              IN  CASE ast.kind = "Int" -> ROk(i64_as_f64(ast.val))
                    [] ast.kind = "Float" -> ROk(ast.val)
                    [] ast.kind = "Char" -> ROk(i64_as_f64(Numeral(ast.val)))
                    [] OTHER -> RErr(<<"cannot convert ">> \o Debug(ast) \o <<" to float">>)
    ELSE RErr(cur.err)

\* KartaQuery::as_string
as_string(cur) ==
    IF cur.ok
    THEN IF ~has(asts, cur.id) THEN RErr(Aborted.err)
         ELSE LET ast == get(asts, cur.id)
              IN  CASE ast.kind = "String" -> ROk(ast.val)
                    [] OTHER -> RErr(<<"cannot convert ">> \o Debug(ast) \o <<" to string">>)
    ELSE RErr(cur.err)

\* truthy that tests the node's handle instead of its atom
truthy_by_handle(cur) ==
    IF cur.ok
    THEN LET ast == get(asts, cur.id)
         IN  CASE ast.kind = "Atom" -> ROk(cur.id # 0)
               [] OTHER -> ROk(TRUE)
    ELSE RErr(cur.err)

\* KartaQuery::truthy
truthy(cur) ==
    IF cur.ok
    THEN IF ~has(asts, cur.id) THEN RErr(Aborted.err)
         ELSE LET ast == get(asts, cur.id)
              IN  CASE ast.kind = "Atom" -> ROk(ast.val # 0)
                    [] OTHER -> ROk(TRUE)
    ELSE RErr(cur.err)

\* KartaQuery::falsey
falsey(cur) ==
    LET t == truthy(cur)
    IN  IF t.ok THEN ROk(~t.val) ELSE t

\* the names the callers pass to get_atom
FieldNames == {NIL, T, HEAD, TAIL, A, B, C, X, NESTED, SOME_STRING, ZZ, <<"a">>}

\* a terminal call `op` returned r; the abort of an expect ends the thread
Called(op, r) ==
    /\ out' = [op |-> op, self |-> current_result, field |-> <<>>, ok |-> r.ok,
               val |-> r.val, err |-> r.err]
    /\ pc' = IF r.err = Aborted.err THEN "panicked" ELSE pc
    /\ UNCHANGED <<expr, file_contents, tokenizer, tokens, cursor, stack, ret, atoms, asts,
                   cells, result, current_result>>

\* KartaFile::query
Query ==
    /\ pc \in {"file", "query"}
    /\ current_result' = query_new
    /\ out' = [NoCall EXCEPT !.op = "query", !.ok = TRUE]
    /\ pc' = "query"
    /\ UNCHANGED <<expr, file_contents, tokenizer, tokens, cursor, stack, ret, atoms, asts,
                   cells, result>>

\* get_atom that interns the name it is given before looking it up
GetAtom_interning(field) ==
    /\ pc = "query"
    /\ atoms' = put_atoms_in_set(atoms, field).atoms
    /\ current_result' = get_atom(current_result, field)
    /\ out' = [op |-> "get_atom", self |-> current_result, field |-> field,
               ok |-> current_result'.ok, val |-> <<>>, err |-> current_result'.err]
    /\ pc' = IF current_result' = Aborted THEN "panicked" ELSE pc
    /\ UNCHANGED <<expr, file_contents, tokenizer, tokens, cursor, stack, ret, asts,
                   cells, result>>

\* KartaQuery::get_atom, called on the current query
GetAtom(field) ==
    /\ pc = "query"
    /\ current_result' = get_atom(current_result, field)
    /\ out' = [op |-> "get_atom", self |-> current_result, field |-> field,
               ok |-> current_result'.ok, val |-> <<>>, err |-> current_result'.err]
    /\ pc' = IF current_result' = Aborted THEN "panicked" ELSE pc
    /\ UNCHANGED <<expr, file_contents, tokenizer, tokens, cursor, stack, ret, atoms, asts,
                   cells, result>>

AsInt == pc = "query" /\ Called("as_int", as_int(current_result))

AsFloat == pc = "query" /\ Called("as_float", as_float(current_result))

AsString == pc = "query" /\ Called("as_string", as_string(current_result))

Truthy == pc = "query" /\ Called("truthy", truthy(current_result))

Falsey == pc = "query" /\ Called("falsey", falsey(current_result))

Next ==
    \/ TokenizeStep
    \/ TokenizeEnd
    \/ ParseInteger
    \/ ParseFloat
    \/ ParseChar
    \/ ParseString
    \/ ParseAtom
    \/ ParseMapOpen
    \/ ParseListOpen
    \/ ParseUnexpected
    \/ ParseMapKey
    \/ ParseMapValue
    \/ ParseListFirst
    \/ ParseListRest
    \/ ParseDone
    \/ Query
    \/ \E field \in FieldNames : GetAtom(field)
    \/ AsInt
    \/ AsFloat
    \/ AsString
    \/ Truthy
    \/ Falsey

Spec == Init /\ [][Next]_vars

\* the steps of KartaFile::new, from its call to its return
KartaFileNew ==
    \/ TokenizeStep
    \/ TokenizeEnd
    \/ ParseInteger
    \/ ParseFloat
    \/ ParseChar
    \/ ParseString
    \/ ParseAtom
    \/ ParseMapOpen
    \/ ParseListOpen
    \/ ParseUnexpected
    \/ ParseMapKey
    \/ ParseMapValue
    \/ ParseListFirst
    \/ ParseListRest
    \/ ParseDone

\* before KartaFile::new is called: no text yet
Uncalled ==
    /\ expr = NoExpr
    /\ file_contents = <<>>
    /\ tokenizer = TokenizerNew
    /\ tokens = <<>>
    /\ cursor = 0
    /\ stack = <<>>
    /\ ret = 0
    /\ atoms = InitialAtoms
    /\ asts = InitialHeap
    /\ cells = {}
    /\ result = Pending
    /\ current_result = NoQuery
    /\ out = NoCall
    /\ pc = "uncalled"

\* KartaFile::new is called with a text: the state Init describes
Call ==
    /\ pc = "uncalled"
    /\ \E inp \in Inputs : expr' = inp.expr /\ file_contents' = inp.text
    /\ pc' = "tokenize"
    /\ UNCHANGED <<tokenizer, tokens, cursor, stack, ret, atoms, asts, cells, result,
                   current_result, out>>

\* the call of KartaFile::new and its steps
CallNext ==
    \/ Call
    \/ KartaFileNew

\* KartaFile::new alone, from its call to its return.  It is sequential code: once
\* called, it keeps running until it returns or aborts
LiveSpec == Uncalled /\ [][CallNext]_vars /\ WF_vars(CallNext)

(***************************************************************************)
(* Properties.                                                             *)
(***************************************************************************)
CallOps == {"get_atom", "as_int", "as_float", "as_string", "truthy", "falsey"}

TerminalOps == CallOps \ {"get_atom"}

\* the node the call recorded in out was made on
SelfAst == get(asts, out.self.id)

\* C1: once the cursor is an Err, a get_atom call with any field returns the query
\* with the same Err, and as_int, as_float, as_string, truthy and falsey return that
\* error message
C1_StickyError ==
    (pc = "query" /\ out.op \in CallOps /\ ~out.self.ok) =>
        /\ current_result = out.self
        /\ ~out.ok
        /\ out.err = out.self.err

\* a get_atom call was made on an errant cursor
C1_Witness ==
    /\ pc = "query"
    /\ out.op = "get_atom"
    /\ ~out.self.ok
    /\ out.field \in DOMAIN atoms

\* a terminal call was made on an errant cursor
C1_WitnessTerminal ==
    /\ pc = "query"
    /\ out.op = "falsey"
    /\ ~out.self.ok

\* C2: for every field name, get_atom on a node that is not a Map makes the cursor
\* an error
C2_NonMapIsError ==
    (pc = "query" /\ out.op = "get_atom" /\ out.self.ok /\ SelfAst.kind # "Map") =>
        ~current_result.ok

C4_MapLookup ==
    (pc = "query" /\ out.op = "get_atom" /\ out.self.ok /\ out.field \in DOMAIN atoms
        /\ SelfAst.kind = "Map") =>
        /\ current_result.ok
        /\ IF atoms[out.field] \in DOMAIN SelfAst.val
           THEN current_result.id = SelfAst.val[atoms[out.field]]
           ELSE /\ current_result.id = 0
                /\ get(asts, 0).kind = "Atom"
                /\ get(asts, 0).val = atoms[NIL]
                /\ truthy(current_result).ok
                /\ truthy(current_result).val = FALSE
                /\ falsey(current_result).ok
                /\ falsey(current_result).val = TRUE

\* an absent key was looked up on a Map node
C4_Witness ==
    /\ pc = "query"
    /\ out.op = "get_atom"
    /\ out.self.ok
    /\ out.field \in DOMAIN atoms
    /\ SelfAst.kind = "Map"
    /\ atoms[out.field] \notin DOMAIN SelfAst.val
    /\ current_result = Ok(0)

\* C5: at every point during and after parsing .nil, .t, .head, .tail have the atom
\* ids 0, 1, 2, 3 and heap index 0 holds the Atom node of .nil
C5_BuiltIns ==
    /\ {NIL, T, HEAD, TAIL} \subseteq DOMAIN atoms
    /\ atoms[NIL] = 0
    /\ atoms[T] = 1
    /\ atoms[HEAD] = 2
    /\ atoms[TAIL] = 3
    /\ Len(asts) >= 1
    /\ asts[1].kind = "Atom"
    /\ asts[1].val = atoms[NIL]

\* a document whose parse interned new atoms and linked list cells
C5_Witness ==
    /\ pc = "file"
    /\ Cardinality(DOMAIN atoms) > 4
    /\ \E c \in cells : get(asts, c).val[atoms[TAIL]] \in cells

\* C6: on an Ok cursor truthy is false exactly on an Atom node of .nil (at handle 0
\* or parsed from the text) and falsey is its negation
C6_Truthy ==
    (pc = "query" /\ out.op \in {"truthy", "falsey"} /\ out.self.ok) =>
        /\ out.ok
        /\ LET is_nil == SelfAst.kind = "Atom" /\ SelfAst.val = atoms[NIL]
           IN  out.val = IF out.op = "truthy" THEN ~is_nil ELSE is_nil

\* truthy was called on a .nil literal of the text
C6_Witness ==
    /\ pc = "query"
    /\ out.op = "truthy"
    /\ out.self.ok
    /\ out.self.id # 0
    /\ SelfAst.kind = "Atom"
    /\ SelfAst.val = atoms[NIL]
    /\ out.val = FALSE

(***************************************************************************)
(* What a written expression means, to compare the parse with.             *)
(***************************************************************************)
Range(f) == {f[i] : i \in DOMAIN f}

\* the kind of node a literal is written for
WrittenKind(lex) ==
    IF lex[1] = "." THEN "Atom"
    ELSE IF lex[1] = "'" THEN "Char"
    ELSE IF lex[1] = "\"" THEN "String"
    ELSE IF "." \in Range(lex) THEN "Float"
    ELSE "Int"

\* the number an integer literal denotes, as a numeral
IntValue(lex) == StripLeadingZeros(lex)

\* the number a float literal without redundant zeros denotes
FloatValue(lex) ==
    LET dot == CHOOSE i \in 1..Len(lex) : lex[i] = "."
    IN  [ip |-> SubSeq(lex, 1, dot - 1), fp |-> SubSeq(lex, dot + 1, Len(lex))]

\* node `ast` is the one written as the literal lex
LeafIs(ast, lex) ==
    LET wk == WrittenKind(lex)
    IN  /\ ast.kind = wk
        /\ CASE wk = "Int" -> ast.val = IntValue(lex)
             [] wk = "Float" -> ast.val = FloatValue(lex)
             [] wk = "Char" -> ast.val = Byte(lex[2])
             [] wk = "String" -> ast.val = SubSeq(lex, 2, Len(lex) - 1)
             [] wk = "Atom" -> lex \in DOMAIN atoms /\ ast.val = atoms[lex]

KeysOf(e) == {e.kids[i].key : i \in DOMAIN e.kids}

\* the value written last for a key of a map literal
LastSub(e, key) ==
    LET last == CHOOSE i \in DOMAIN e.kids :
                    /\ e.kids[i].key = key
                    /\ \A j \in DOMAIN e.kids : e.kids[j].key = key => j <= i
    IN  e.kids[last].sub

\* every map literal in e has distinct keys
RECURSIVE DistinctKeys(_)
DistinctKeys(e) ==
    /\ e.k = "map" => Cardinality(KeysOf(e)) = Len(e.kids)
    /\ \A i \in DOMAIN e.kids : DistinctKeys(e.kids[i].sub)

\* handle id holds what e was written for; of a list literal, the cells from
\* element i on
RECURSIVE Denotes(_, _, _)
Denotes(id, e, i) ==
    /\ has(asts, id)
    /\ LET ast == get(asts, id)
       IN  CASE e.k = "leaf" -> LeafIs(ast, e.lex)
             [] e.k = "map" ->
                   /\ ast.kind = "Map"
                   /\ KeysOf(e) \subseteq DOMAIN atoms
                   /\ DOMAIN ast.val = {atoms[key] : key \in KeysOf(e)}
                   /\ \A key \in KeysOf(e) :
                          Denotes(ast.val[atoms[key]], LastSub(e, key), 1)
             [] e.k = "list" ->
                   IF i > Len(e.kids)
                   THEN id = 0 /\ ast.kind = "Atom" /\ ast.val = atoms[NIL]
                   ELSE /\ ast.kind = "Map"
                        /\ DOMAIN ast.val = {atoms[HEAD], atoms[TAIL]}
                        /\ Denotes(ast.val[atoms[HEAD]], e.kids[i].sub, 1)
                        /\ Denotes(ast.val[atoms[TAIL]], e, i + 1)

\* the key paths through the nested map literals of e
RECURSIVE Paths(_)
Paths(e) ==
    IF e.k = "map"
    THEN {<<>>} \cup UNION {{<<key>> \o p : p \in Paths(LastSub(e, key))} : key \in KeysOf(e)}
    ELSE {<<>>}

\* the expression written at a path
RECURSIVE SubAt(_, _)
SubAt(e, path) == IF path = <<>> THEN e ELSE SubAt(LastSub(e, Head(path)), Tail(path))

\* cur.get_atom(path[1]).get_atom(path[2])...
RECURSIVE Chain(_, _)
Chain(cur, path) ==
    IF path = <<>> THEN cur ELSE Chain(get_atom(cur, Head(path)), Tail(path))

\* the coercion that matches a written literal returns its value
Coerces(cur, e) ==
    IF e.k # "leaf" THEN TRUE
    ELSE LET wk == WrittenKind(e.lex)
         IN  CASE wk = "Int" -> as_int(cur) = ROk(IntValue(e.lex))
               [] wk = "Float" -> as_float(cur) = ROk(FloatValue(e.lex))
               [] wk = "Char" -> as_int(cur) = ROk(Numeral(Byte(e.lex[2])))
               [] wk = "String" -> as_string(cur) = ROk(SubSeq(e.lex, 2, Len(e.lex) - 1))
               [] wk = "Atom" -> truthy(cur).ok /\ truthy(cur).val = (e.lex # NIL)

\* KartaFile::new has returned a document
HasFile == pc \in {"file", "query"}

\* KartaFile::new has ended, one way or another
Ended == pc \notin {"tokenize", "expr", "ret"}

\* C7: in the document of a newline-terminated map literal with distinct atom keys
\* (maps possibly nested), the get_atom chain along every key path ends on the node
\* written for that path, and the matching coercion returns the written value
C7_MapPaths ==
    (Ended /\ expr.k = "map" /\ DistinctKeys(expr)) =>
        /\ HasFile
        /\ \A path \in Paths(expr) :
               LET cur == Chain(query_new, path)
               IN  /\ cur.ok
                   /\ Denotes(cur.id, SubAt(expr, path), 1)
                   /\ Coerces(cur, SubAt(expr, path))

\* { .nested = { .x = 42 } }: get_atom(".nested").get_atom(".x").as_int() returned 42
C7_Witness ==
    /\ pc = "query"
    /\ expr = MapT(<<<<NESTED, MapT(<<<<X, Leaf(<<"4", "2">>)>>>>)>>>>)
    /\ out.op = "as_int"
    /\ out.self = Chain(query_new, <<NESTED, X>>)
    /\ out.self.id # result.root
    /\ out.ok
    /\ out.val = <<"4", "2">>

\* C8: in the document of a newline-terminated list literal [e1, ..., en], n >= 1,
\* the root is the first cell, .tail k times then .head reaches the node of e(k+1),
\* .tail n times reaches the .nil atom; [] is the .nil atom node itself
C8_ListWalk ==
    (Ended /\ expr.k = "list") =>
        LET n == Len(expr.kids)
            tails(k) == Chain(query_new, [i \in 1..k |-> TAIL])
        IN  IF ~HasFile THEN FALSE
            ELSE IF n = 0
            THEN result.root = 0 /\ asts[1].kind = "Atom" /\ asts[1].val = atoms[NIL]
            ELSE /\ result.root \in cells
                 /\ \A k \in 0..(n - 1) :
                        LET cur == get_atom(tails(k), HEAD)
                        IN  /\ tails(k).ok
                            /\ tails(k).id \in cells
                            /\ cur.ok
                            /\ Denotes(cur.id, expr.kids[k + 1].sub, 1)
                            /\ Coerces(cur, expr.kids[k + 1].sub)
                 /\ tails(n) = Ok(0)
                 /\ asts[1].kind = "Atom"
                 /\ asts[1].val = atoms[NIL]

\* [1, 2, 3]: .tail, .tail, .head, as_int() returned 3
C8_Witness ==
    /\ pc = "query"
    /\ expr = ListT(<<Leaf(<<"1">>), Leaf(<<"2">>), Leaf(<<"3">>)>>)
    /\ out.op = "as_int"
    /\ out.self = Chain(query_new, <<TAIL, TAIL, HEAD>>)
    /\ out.ok
    /\ out.val = <<"3">>

\* C9: at every step every list cell made by make_list_node is a Map with exactly
\* the keys .head and .tail whose .tail is another list cell or the .nil atom node
C9_ListCells ==
    \A c \in cells :
        /\ has(asts, c)
        /\ get(asts, c).kind = "Map"
        /\ DOMAIN get(asts, c).val = {atoms[HEAD], atoms[TAIL]}
        /\ Cardinality(DOMAIN get(asts, c).val) = 2
        /\ LET tail == get(asts, c).val[atoms[TAIL]]
           IN  \/ tail \in cells /\ tail # c
               \/ tail = 0 /\ asts[1].kind = "Atom" /\ asts[1].val = atoms[NIL]

\* during the construction of a list a cell is linked to the next
C9_Witness ==
    /\ pc = "expr"
    /\ stack # <<>>
    /\ Top.fn = "list"
    /\ \E c \in cells : get(asts, c).val[atoms[TAIL]] \in cells
    /\ \E c \in cells : get(asts, c).val[atoms[TAIL]] = 0

\* the text is one integer literal and a newline
IsIntLiteral == expr.k = "leaf" /\ WrittenKind(expr.lex) = "Int"

\* C10: for every integer literal, of any number of digits, parsing it and calling
\* as_int on the root returns the numeric value of the literal
C10_IntRoundTrip ==
    (IsIntLiteral /\ Ended) =>
        /\ result.status = "ok"
        /\ as_int(query_new) = ROk(IntValue(expr.lex))

\* the round trip of the literals up to i64::MAX (the part of C10 that holds)
C10_InRange ==
    (IsIntLiteral /\ Ended /\ NumLeq(IntValue(expr.lex), I64Max)) =>
        /\ result.status = "ok"
        /\ as_int(query_new) = ROk(IntValue(expr.lex))

(***************************************************************************)
(* Tokenization: what the text says, read off the characters alone.        *)
(***************************************************************************)
\* the literal or comment that character i of the text is read in, given the one
\* (mode) the characters before it left open; the value at the end of the text
RECURSIVE OpenAt(_, _, _)
OpenAt(text, i, mode) ==
    IF i > Len(text) THEN mode
    ELSE LET c == text[i]
         IN  CASE mode = "none" ->
                     OpenAt(text, i + 1,
                            IF c = "'" THEN "char"
                            ELSE IF c = "\"" THEN "string"
                            ELSE IF c = ";" THEN "comment"
                            ELSE "none")
               [] mode = "char" -> OpenAt(text, i + 1, IF c = "'" THEN "none" ELSE "char")
               [] mode = "string" ->
                     OpenAt(text, i + 1, IF c = "\"" THEN "none" ELSE "string")
               [] mode = "comment" ->
                     OpenAt(text, i + 1, IF c = "\n" THEN "none" ELSE "comment")

\* "char" / "string" when the text ends inside a char / string literal
OpenLiteral(text) == OpenAt(text, 1, "none")

\* C11: for every text with a char or string literal that is still open at the end
\* of the input, tokenization fails with the fatal error of that literal and
\* KartaFile::new produces no document
C11_UnterminatedFails ==
    (OpenLiteral(file_contents) \in {"char", "string"} /\ pc # "tokenize") =>
        /\ pc = "failed"
        /\ result.status = "err"
        /\ result.err = <<"error: ", OpenLiteral(file_contents), " goes to end of file">>

\* the part of C11 about the document alone: no text with an open literal yields one
C11_NoDocument ==
    OpenLiteral(file_contents) \in {"char", "string"} => ~HasFile

(***************************************************************************)
(* Parse errors.                                                           *)
(***************************************************************************)
\* the token a frame of parse_expression requires after its sub-expression returned
\* and no comma continues it
Required(frame) ==
    CASE frame.fn = "map" /\ frame.stage = "key" -> "Assign"
      [] frame.fn = "map" /\ frame.stage = "value" -> "RightBrace"
      [] frame.fn = "list" -> "RightSquare"

\* error: <line>:<col>: expected <expected>, got <kind>, for the token tok
ErrorAt(tok, expected) ==
    <<"error: ">> \o Numeral(tok.span.line) \o <<":">> \o Numeral(tok.span.col)
        \o <<": expected ", expected, ", got ", tok.kind>>

\* a sub-expression returned to a frame and the next token is neither the one the
\* frame requires nor a comma that continues the frame
RequiredMissing ==
    /\ pc = "ret"
    /\ stack # <<>>
    /\ get(asts, ret).kind = "Atom" \/ ~(Top.fn = "map" /\ Top.stage = "key")
    /\ cursor < Len(tokens)
    /\ tokens[cursor + 1].kind # Required(Top)
    /\ tokens[cursor + 1].kind # "Comma" \/ Required(Top) = "Assign"

\* C12: when the token a production requires is missing, KartaFile::new returns Err
\* with error: <line>:<col>: expected <kind>, got <kind>, where line and col are the
\* span recorded on the first unconsumed token and got is its kind, and there is no
\* document; for { .a = 1 .b = 2 } the error is at the token .b
C12_ExpectError ==
    /\ [][RequiredMissing =>
            /\ pc' = "failed"
            /\ result'.status = "err"
            /\ result'.err = ErrorAt(tokens[cursor + 1], Required(Top))
            /\ cursor' = cursor]_vars
    /\ [](file_contents = MissingComma /\ Ended =>
            /\ pc = "failed"
            /\ tokens[cursor + 1].data = B
            /\ result.err = <<"error: ", "1", ":", "1", "1", ": expected ", "RightBrace",
                              ", got ", "Atom">>)

\* { .a = 1 .b = 2 } was rejected
C12_Witness ==
    /\ file_contents = MissingComma
    /\ pc = "failed"
    /\ result.status = "err"
    /\ tokens[cursor + 1].kind = "Atom"

\* C13: for every input text KartaFile::new returns Ok(document) or Err(message);
\* it never aborts on an unwrap, an index or an assertion
C13_NeverAborts ==
    /\ result.status # "panic"
    /\ Ended => result.status \in {"ok", "err"}

\* C14: KartaFile::new returns Ok only when the parser has consumed every token
\* before EndOfFile, so a text with further tokens after its first complete
\* expression is rejected
C14_WholeFile ==
    HasFile =>
        /\ cursor = Len(tokens) - 1
        /\ tokens[cursor + 1].kind = "EndOfFile"

(***************************************************************************)
(* The document is read-only.                                              *)
(***************************************************************************)
\* C15: once KartaFile::new has returned a document, no query operation (query,
\* get_atom with a known or an unknown name, as_int, as_float, as_string, truthy,
\* falsey) changes the atom table, the AST heap or the root handle; get_atom does
\* not intern its name
C15_ReadOnly ==
    [][HasFile => /\ atoms' = atoms
                  /\ asts' = asts
                  /\ result' = result
                  /\ HasFile']_vars

\* get_atom was called on an Ok cursor with a name the document never interned
C15_Witness ==
    /\ pc = "query"
    /\ out.op = "get_atom"
    /\ out.self.ok
    /\ get(asts, out.self.id).kind = "Map"
    /\ out.field \notin DOMAIN atoms

(***************************************************************************)
(* Coercions.                                                              *)
(***************************************************************************)
\* the message is cannot convert <node> to <what>
CannotConvert(err, what) ==
    /\ Len(err) >= 3
    /\ err[1] = "cannot convert "
    /\ err[Len(err)] = what
    /\ SubSeq(err, 2, Len(err) - 1) = Debug(SelfAst)

\* C16: on an Ok cursor as_int and as_float return Ok exactly when the node is an
\* Int, a Float or a Char and Err(cannot convert .. to int / float) when it is a
\* String, an Atom or a Map; as_string returns Ok exactly when the node is a String
\* and Err for every other kind; none of them changes the cursor
C16_Coercions ==
    (pc = "query" /\ out.op \in {"as_int", "as_float", "as_string"} /\ out.self.ok) =>
        LET kind == SelfAst.kind
        IN  /\ kind \in {"Int", "Float", "Char", "String", "Atom", "Map"}
            /\ current_result = out.self
            /\ out.op = "as_int" =>
                   /\ out.ok <=> kind \in {"Int", "Float", "Char"}
                   /\ ~out.ok => CannotConvert(out.err, " to int")
            /\ out.op = "as_float" =>
                   /\ out.ok <=> kind \in {"Int", "Float", "Char"}
                   /\ ~out.ok => CannotConvert(out.err, " to float")
            /\ out.op = "as_string" =>
                   /\ out.ok <=> kind = "String"
                   /\ ~out.ok => CannotConvert(out.err, " to string")

\* as_float was called on a Char node and returned a value
C16_Witness ==
    /\ pc = "query"
    /\ out.op = "as_float"
    /\ out.self.ok
    /\ SelfAst.kind = "Char"
    /\ out.ok

\* as_string was refused on a Map node reached through get_atom
C16_WitnessRefused ==
    /\ pc = "query"
    /\ out.op = "as_string"
    /\ out.self.ok
    /\ out.self.id # result.root
    /\ SelfAst.kind = "Map"
    /\ ~out.ok

(***************************************************************************)
(* The atom table.                                                         *)
(***************************************************************************)
\* the table is one-to-one and its ids are exactly 0..n-1
Dense(tbl) ==
    /\ \A a, b \in DOMAIN tbl : tbl[a] = tbl[b] => a = b
    /\ {tbl[a] : a \in DOMAIN tbl} = 0..(Cardinality(DOMAIN tbl) - 1)

\* the Atom token `data` is about to be interned by parse_expression
Interning(data) ==
    /\ pc = "expr"
    /\ cursor < Len(tokens)
    /\ tokens[cursor + 1].kind = "Atom"
    /\ tokens[cursor + 1].data = data

\* C17: throughout parsing the atom table is a one-to-one map from text to id whose
\* ids are exactly 0..n-1; an id once assigned never changes; interning a text that
\* is present returns its id and leaves the table unchanged, interning a new text
\* returns the next id
C17_AtomTable ==
    /\ []Dense(atoms)
    /\ [][/\ \A a \in DOMAIN atoms : a \in DOMAIN atoms' /\ atoms'[a] = atoms[a]
          /\ \A a \in DOMAIN atoms' \ DOMAIN atoms :
                 atoms'[a] = Cardinality(DOMAIN atoms)
          /\ \A data \in {tokens[i].data : i \in 1..Len(tokens)} :
                 Interning(data) =>
                     /\ pc' = "ret"
                     /\ get(asts', ret') = AstAtom(atoms'[data])
                     /\ IF data \in DOMAIN atoms
                        THEN atoms' = atoms
                        ELSE DOMAIN atoms' = DOMAIN atoms \cup {data}]_vars

\* a text other than the built-in ones was interned twice, and another one once
C17_Witness ==
    /\ pc = "ret"
    /\ Cardinality(DOMAIN atoms) >= 6
    /\ \E i, j \in 1..Len(asts) :
           /\ i < j
           /\ asts[i].kind = "Atom"
           /\ asts[j].kind = "Atom"
           /\ asts[i].val = asts[j].val
           /\ asts[i].val >= 4

(***************************************************************************)
(* The token sequence.                                                     *)
(***************************************************************************)
\* the kind of the token that the run of a tokenizer state is
RunKind(state) ==
    CASE state = "Integer" -> "Integer"
      [] state = "Float" -> "Float"
      [] state = "Atom" -> "Atom"
      [] OTHER -> "none"

\* C18: when the input ends while the tokenizer is in the Integer, Float or Atom
\* state, the accumulated run is emitted as a token of that kind before the
\* EndOfFile token
C18_LastRunEmitted ==
    [][(pc = "tokenize" /\ eof(tokenizer, file_contents)
            /\ RunKind(tokenizer.state) # "none") =>
         /\ Len(tokens') = Len(tokens) + 2
         /\ tokens'[Len(tokens) + 1].kind = RunKind(tokenizer.state)
         /\ tokens'[Len(tokens) + 1].data =
                Slice(file_contents, tokenizer.starting_cursor, tokenizer.cursor)
         /\ tokens'[Len(tokens) + 2].kind = "EndOfFile"]_vars

\* the number of newline characters among the first n characters of the text
Newlines(text, n) == Cardinality({i \in 1..n : text[i] = "\n"})

\* C19: every newline the tokenizer consumes as whitespace increments the line
\* counter, so the line recorded on each token is 1 plus the number of newline
\* characters that precede the token in the text (the tokens before EndOfFile)
C19_TokenLines ==
    [][(pc = "tokenize" /\ Len(tokens') = Len(tokens) + 1
            /\ tokens'[Len(tokens')].kind # "EndOfFile") =>
         tokens'[Len(tokens')].span.line =
             1 + Newlines(file_contents, tokenizer.starting_cursor)]_vars

Punctuation ==
    [LeftBrace |-> "{", RightBrace |-> "}", LeftSquare |-> "[", RightSquare |-> "]",
     Comma |-> ",", Assign |-> "="]

\* the kinds and texts of the tokens
KindsAndData == [i \in 1..Len(tokens) |-> <<tokens[i].kind, tokens[i].data>>]

InComment(text, i) == OpenAt(SubSeq(text, 1, i), 1, "none") = "comment"

\* the character the tokenizer is at
CurrentChar == file_contents[tokenizer.cursor + 1]

Relinked(i) ==
    /\ (i - 1) \in cells
    /\ asts[i].kind = "Map"
    /\ asts'[i].kind = "Map"
    /\ DOMAIN asts'[i].val = DOMAIN asts[i].val
    /\ asts'[i].val[atoms[HEAD]] = asts[i].val[atoms[HEAD]]
    /\ asts[i].val[atoms[TAIL]] = 0
    /\ asts'[i].val[atoms[TAIL]] = Len(asts)
    /\ cells' = cells \cup {Len(asts)}

\* C23: the heap only grows, by one node a step at most; the handle of a new node
\* is the length the heap had, so handles increase and are never reused; a node
\* once inserted is never removed or modified, except that the .tail of a list
\* cell, while it still is the .nil node, is overwritten to link the next cell (so
\* at most once a cell)
C23_HeapGrows ==
    [][/\ Len(asts') \in {Len(asts), Len(asts) + 1}
       /\ Len(asts') = Len(asts) + 1 =>
              /\ has(asts', Len(asts))
              /\ IF cells' # cells
                 THEN cells' = cells \cup {Len(asts)} /\ Len(asts) \notin cells
                 ELSE ret' = Len(asts)
       /\ \A i \in 1..Len(asts) : IF asts'[i].kind = asts[i].kind /\ asts'[i] = asts[i]
                                  THEN TRUE
                                  ELSE Relinked(i)
       /\ Cardinality({i \in 1..Len(asts) :
                          asts'[i].kind = "Map" /\ asts[i].kind = "Map"
                              /\ asts'[i] # asts[i]}) <= 1]_vars

\* a list of two elements has been built: the first cell was relinked to the second
C23_Witness ==
    /\ pc = "ret"
    /\ stack = <<>>
    /\ ret \in cells
    /\ get(asts, ret).val[atoms[TAIL]] \in cells
    /\ get(asts, ret).val[atoms[TAIL]] > ret
    /\ Len(asts) >= 5

\* the handle indexes a node of the heap
InRange(id) == id \in 0..(Len(asts) - 1)

\* C24: every handle that can be dereferenced is less than the heap length: the
\* handle a parse_expression call returned, the root, every value stored in a Map
\* node and every Ok cursor a chain of get_atom calls reaches; AstHeap::get never
\* returns None and the failure of the expect in the query operations is never reached
C24_HandlesInRange ==
    /\ pc = "ret" => InRange(ret)
    /\ HasFile => InRange(result.root)
    /\ \A i \in 1..Len(asts) :
           asts[i].kind = "Map" => \A k \in DOMAIN asts[i].val : InRange(asts[i].val[k])
    /\ (pc = "query" /\ current_result.ok) => InRange(current_result.id)
    /\ current_result # Aborted
    /\ out.err # Aborted.err
    /\ result.err # <<"called Option::unwrap() on a None value">>

\* get_atom with an interned name that the map does not hold gave the handle 0, and
\* a further call was made on it
C24_Witness ==
    /\ pc = "query"
    /\ out.op \in TerminalOps
    /\ out.self = Ok(0)
    /\ result.root # 0
    /\ get(asts, result.root).kind = "Map"
    /\ \A k \in DOMAIN get(asts, result.root).val : get(asts, result.root).val[k] # 0
    /\ \E field \in FieldNames :
           /\ field \in DOMAIN atoms
           /\ atoms[field] \notin DOMAIN get(asts, result.root).val

(***************************************************************************)
(* Map literals.                                                           *)
(***************************************************************************)
\* C25: a map literal is accepted only if every key is written as an Atom token;
\* in particular the document of a text that starts with `{` and whose root is the
\* Map has an Atom token right after the `{`
C25_KeysAreAtomTokens ==
    (HasFile /\ tokens[1].kind = "LeftBrace") =>
        /\ get(asts, result.root).kind = "Map"
        /\ tokens[2].kind = "Atom"

\* the key expression returned to the `{` frame, as a node that is not an Atom
KeyNotAtom ==
    /\ pc = "ret"
    /\ stack # <<>>
    /\ Top.fn = "map"
    /\ Top.stage = "key"
    /\ get(asts, ret).kind # "Atom"

\* C26: in a map literal, when the key expression parsed to a node that is not an
\* Atom node, the parse fails with bad! whatever the next token is (the `=` is not
\* examined: the cursor stays), and the map is not inserted into the heap
C26_BadKey ==
    /\ [][KeyNotAtom =>
            /\ pc' = "failed"
            /\ result'.status = "err"
            /\ result'.err = <<"bad!">>
            /\ cursor' = cursor
            /\ asts' = asts]_vars
    /\ [](result.err = <<"bad!">> =>
            /\ pc = "failed"
            /\ Top.fn = "map"
            /\ Top.stage = "key"
            /\ get(asts, ret).kind # "Atom")

\* the parse failed with bad! on a key that is a Map node followed by `=`, as the
\* inner map of {{.a=1}=1}
C26_Witness ==
    /\ pc = "failed"
    /\ result.err = <<"bad!">>
    /\ get(asts, ret).kind = "Map"
    /\ tokens[cursor + 1].kind = "Assign"

\* the parse failed with bad! on a key that is not followed by `=`
C26_WitnessNoAssign ==
    /\ pc = "failed"
    /\ result.err = <<"bad!">>
    /\ tokens[cursor + 1].kind # "Assign"

\* the map literal e repeats a key
RepeatsKey(e) == e.k = "map" /\ Cardinality(KeysOf(e)) < Len(e.kids)

\* C27: a map literal that repeats a key is accepted without error; its Map node
\* has one entry for each atom written, and get_atom with a key reaches the value
\* of the last pair written with that key
C27_LastPairWins ==
    (Ended /\ RepeatsKey(expr)) =>
        /\ HasFile
        /\ get(asts, result.root).kind = "Map"
        /\ Cardinality(DOMAIN get(asts, result.root).val) = Cardinality(KeysOf(expr))
        /\ \A key \in KeysOf(expr) :
               LET cur == get_atom(query_new, key)
               IN  /\ cur.ok
                   /\ Denotes(cur.id, LastSub(expr, key), 1)
                   /\ Coerces(cur, LastSub(expr, key))

\* {.a=1,.a=2.5}: get_atom(".a").as_float() returned 2.5
C27_Witness ==
    /\ pc = "query"
    /\ expr = MapT(<<<<A, Leaf(<<"1">>)>>, <<A, Leaf(<<"2", ".", "5">>)>>>>)
    /\ out.op = "as_float"
    /\ out.self = get_atom(query_new, A)
    /\ out.ok
    /\ out.val = [ip |-> <<"2">>, fp |-> <<"5">>]

\* C28: the value of every Char node is the character between the two quotes of its
\* token, never a quote that delimits the literal
C28_CharBetweenQuotes ==
    \A i \in 1..Len(asts) : asts[i].kind = "Char" => asts[i].val # Byte("'")

(***************************************************************************)
(* Termination and the parser's cursor.                                    *)
(***************************************************************************)
\* C29: KartaFile::new terminates on every input; every iteration of the
\* tokenizer's loop advances the cursor or resets the state to None, and an
\* iteration in the None state advances; every parse_expression call consumes at
\* least one token or returns an error
C29_Terminates ==
    /\ <>(pc \in {"file", "failed", "panicked"})
    /\ [][/\ (pc = "tokenize" /\ ~eof(tokenizer, file_contents)) =>
                 /\ \/ tokenizer'.cursor = tokenizer.cursor + 1
                    \/ /\ tokenizer'.cursor = tokenizer.cursor
                       /\ tokenizer.state # "None"
                       /\ tokenizer'.state = "None"
                 /\ tokenizer.state = "None" => tokenizer'.cursor = tokenizer.cursor + 1
          /\ pc = "expr" => (cursor' > cursor \/ pc' = "failed")]_vars

\* KartaFile::new returned after a tokenization with iterations that did not
\* advance and a parse with nested calls
C29_Witness ==
    /\ pc = "file"
    /\ expr.k = "list"
    /\ Len(expr.kids) = 2
    /\ expr.kids[1].sub.k = "list"
    /\ cursor = Len(tokens) - 1
    /\ tokenizer.cursor = Len(file_contents)

\* C30: once the tokens are made, the parser's cursor is at most the index of
\* the EndOfFile token, which is the last token and is never consumed, so peek
\* always indexes an existing token and no call aborts on an index out of range
C30_CursorInRange ==
    pc # "tokenize" =>
        /\ tokens # <<>>
        /\ tokens[Len(tokens)].kind = "EndOfFile"
        /\ ~eos
        /\ cursor + 1 <= Len(tokens)
        /\ \A i \in 1..cursor : tokens[i].kind # "EndOfFile"
        /\ result.status = "panic" => result.err # <<"index out of bounds">>

\* parse_error has peeked the EndOfFile token, after tokens were consumed
C30_Witness ==
    /\ pc = "failed"
    /\ cursor > 0
    /\ cursor = Len(tokens) - 1
    /\ peek.kind = "EndOfFile"
    /\ result.err = parse_error("an expression", "EndOfFile")

====
